---- MODULE Spec2Model ----
(***************************************************************************)
(* Model of drsl's string scanning primitives (src/drsl/nextline.hpp):     *)
(* nextline, findfirst (character), findfirst (substring), findfirstof,    *)
(* and the strchr/strstr/strpbrk fast-path overloads.                      *)
(*                                                                         *)
(* A buffer is a sequence of code units ending in the terminator 0.  A     *)
(* pointer into a buffer is a 1-based index; the NULL pointer is 0.        *)
(***************************************************************************)
EXTENDS Integers, Sequences, FiniteSets, TLC

\* ------------------------------------------------------------------ bounds
MaxLen == 4     \* code points in the buffer handed to nextline
MaxStr == 3     \* code points in the string that is searched
MaxSet == 2     \* code points in the needle / character set

\* --------------------------------------------------------------- code units
\* size_t arithmetic wraps; the width is scaled down so that the no-limit
\* default (size_t)-1 still exceeds every buffer of the model by far.
SizeMod == 2^16
NoLimit == SizeMod - 1
SizeSub(a, b) == (a - b + SizeMod) % SizeMod

NULL == 0

\* '\n', '\r', 'a' and U+00E9 (two code units)
Chars == {10, 13, 97, 233}

\* The code points of the buffers that are searched.
SearchChars == {10, 97, 233}

\* The code units of one code point (one unit below 0x80, else two).
Encode(cp) ==
  IF cp < 128 THEN <<cp>> ELSE <<192 + (cp \div 64), 128 + (cp % 64)>>

RECURSIVE EncodeAll(_)
EncodeAll(cps) ==
  IF cps = <<>> THEN <<0>> ELSE Encode(Head(cps)) \o EncodeAll(Tail(cps))

CodePointSeqs(cs, n) == UNION {[1..k -> cs] : k \in 0..n}

\* Well-formed null-terminated buffers of at most n code points of cs.
Buffers(cs, n) == {EncodeAll(cps) : cps \in CodePointSeqs(cs, n)}

\* nextchar(str): the code point at p and the pointer past it; the
\* terminator is returned without advancing.
nextchar(b, p) ==
  IF b[p] = 0 THEN [ch |-> 0, next |-> p]
  ELSE IF b[p] < 128 THEN [ch |-> b[p], next |-> p + 1]
  ELSE [ch |-> (b[p] - 192) * 64 + (b[p + 1] - 128), next |-> p + 2]

\* Pointers of b that are on a code point boundary (terminator included).
RECURSIVE BoundariesFrom(_, _)
BoundariesFrom(b, p) ==
  IF b[p] = 0 THEN {p} ELSE {p} \cup BoundariesFrom(b, nextchar(b, p).next)

Boundaries(b) == BoundariesFrom(b, 1)

\* ------------------------------------------------------------------ state
VARIABLES
  buf,      \* the caller's null-terminated buffer
  str,      \* nextline: the caller's cursor (T *&str)
  line,     \* nextline: the reference_string written by the call
  ret,      \* nextline: "none" before the first call, else "true" / "false"
  origin,   \* the cursor the caller started from
  lines,    \* the calls that returned true: entry cursor, line, cursor after
  buf2,     \* the needle / character set buffer of the search functions
  res       \* the last search call: operation, arguments and result

vars == <<buf, str, line, ret, origin, lines, buf2, res>>

NoLine == [start |-> NULL, end |-> NULL]
NoRes == [op |-> "none"]

\* ---------------------------------------------------------------- nextline
\* Variant: after "\r\n" the cursor is left on the '\n' (str = temp).
RECURSIVE nextlineLoop_crlfHalf(_, _, _, _)
nextlineLoop_crlfHalf(b, start, s, temp) ==
  LET c == nextchar(b, temp) IN
  IF c.ch = 0
    THEN [ret |-> "true", line |-> [start |-> start, end |-> s], str |-> s]
  ELSE IF c.ch = 13 /\ nextchar(b, c.next).ch = 10
    THEN [ret |-> "true", line |-> [start |-> start, end |-> s],
          str |-> c.next]
  ELSE IF c.ch = 10
    THEN [ret |-> "true", line |-> [start |-> start, end |-> s],
          str |-> c.next]
  ELSE nextlineLoop_crlfHalf(b, start, c.next, c.next)

\* Variant: every '\r' ends the line, whatever follows it.
RECURSIVE nextlineLoop_bareCR(_, _, _, _)
nextlineLoop_bareCR(b, start, s, temp) ==
  LET c == nextchar(b, temp) IN
  IF c.ch = 0
    THEN [ret |-> "true", line |-> [start |-> start, end |-> s], str |-> s]
  ELSE IF c.ch = 13
    THEN [ret |-> "true", line |-> [start |-> start, end |-> s],
          str |-> IF nextchar(b, c.next).ch = 10
                    THEN nextchar(b, c.next).next ELSE c.next]
  ELSE IF c.ch = 10
    THEN [ret |-> "true", line |-> [start |-> start, end |-> s],
          str |-> c.next]
  ELSE nextlineLoop_bareCR(b, start, c.next, c.next)

\* The while loop of nextline: s is str, temp the working copy.
RECURSIVE nextlineLoop(_, _, _, _)
nextlineLoop(b, start, s, temp) ==
  LET c == nextchar(b, temp) IN
  IF c.ch = 0
    THEN [ret |-> "true", line |-> [start |-> start, end |-> s], str |-> s]
  ELSE IF c.ch = 13 /\ nextchar(b, c.next).ch = 10
    THEN [ret |-> "true", line |-> [start |-> start, end |-> s],
          str |-> nextchar(b, c.next).next]
  ELSE IF c.ch = 10
    THEN [ret |-> "true", line |-> [start |-> start, end |-> s],
          str |-> c.next]
  ELSE nextlineLoop(b, start, c.next, c.next)

\* Variant: the test for an empty remainder is missing.
nextline_noEmptyTest(b, ln, s) == nextlineLoop(b, s, s, s)

nextline(b, ln, s) ==
  IF b[s] = 0
    THEN [ret |-> "false", line |-> ln, str |-> s]
    ELSE nextlineLoop(b, s, s, s)

\* The caller calls nextline once more with its cursor and keeps the line.
CallNextline ==
  LET r == nextline(buf, line, str) IN
  /\ ret' = r.ret
  /\ line' = r.line
  /\ str' = r.str
  /\ lines' = IF r.ret = "true"
                THEN Append(lines, [entry |-> str, start |-> r.line.start,
                                    end |-> r.line.end, next |-> r.str])
                ELSE lines
  /\ UNCHANGED <<buf, origin, buf2, res>>

InitLine ==
  /\ buf \in Buffers(Chars, MaxLen)
  /\ origin \in Boundaries(buf)
  /\ str = origin
  /\ line = NoLine
  /\ ret = "none"
  /\ lines = <<>>
  /\ buf2 = <<0>>
  /\ res = NoRes

NextLine == CallNextline

SpecLine == InitLine /\ [][NextLine]_vars

\* The caller keeps calling until nextline returns false.
LiveLine == SpecLine /\ WF_vars(CallNextline)

\* --------------------------------------------------------- collaborators
\* getchar(str, index): the code point number index of str.
RECURSIVE getchar(_, _, _)
getchar(b, p, index) ==
  IF index = 0 THEN nextchar(b, p).ch
  ELSE getchar(b, nextchar(b, p).next, index - 1)

\* length(str): the code units from p up to the terminator.
RECURSIVE length(_, _)
length(b, p) == IF b[p] = 0 THEN 0 ELSE 1 + length(b, p + 1)

\* compare(str1, str2, count): ordinal comparison of at most count code
\* units, ending at a terminator; 0 when equal.
RECURSIVE compare(_, _, _, _, _)
compare(b1, p1, b2, p2, count) ==
  IF count = 0 THEN 0
  ELSE IF b1[p1] < b2[p2] THEN -1
  ELSE IF b1[p1] > b2[p2] THEN 1
  ELSE IF b1[p1] = 0 THEN 0
  ELSE compare(b1, p1 + 1, b2, p2 + 1, count - 1)

\* ------------------------------------------------- findfirst (character)
\* Variant: the pointer past the matching code point is returned.
RECURSIVE findfirst_char_past(_, _, _, _)
findfirst_char_past(b, s, character, strLength) ==
  IF strLength > 0 /\ nextchar(b, s).ch # 0
    THEN LET temp == nextchar(b, s).next IN
         IF nextchar(b, s).ch = character THEN temp
         ELSE findfirst_char_past(b, temp, character,
                                  SizeSub(strLength, temp - s))
    ELSE NULL

\* findfirst(T *str, char32_t character, size_t strLength)
RECURSIVE findfirst_char(_, _, _, _)
findfirst_char(b, s, character, strLength) ==
  IF strLength > 0 /\ nextchar(b, s).ch # 0
    THEN LET temp == nextchar(b, s).next IN
         IF nextchar(b, s).ch = character THEN s
         ELSE findfirst_char(b, temp, character, SizeSub(strLength, temp - s))
    ELSE NULL

\* ------------------------------------------------- findfirst (substring)
\* Variant: a rejected candidate ends the search.
findfirst_strLoop_once(b1, s1, b2, s2, first_char, str1Length, str2Length) ==
  LET p == findfirst_char(b1, s1, first_char, str1Length) IN
  IF p = NULL THEN NULL
  ELSE IF compare(b1, p, b2, s2, str2Length) = 0 THEN p
  ELSE NULL

\* The for loop of the substring findfirst.
RECURSIVE findfirst_strLoop(_, _, _, _, _, _, _)
findfirst_strLoop(b1, s1, b2, s2, first_char, str1Length, str2Length) ==
  LET p == findfirst_char(b1, s1, first_char, str1Length) IN
  IF p = NULL THEN NULL
  ELSE IF compare(b1, p, b2, s2, str2Length) = 0 THEN p
  ELSE findfirst_strLoop(b1, nextchar(b1, p).next, b2, s2, first_char,
                         str1Length, str2Length)

\* findfirst(const T *str1, const T *str2, size_t str1Length, size_t str2Length)
findfirst_str(b1, s1, b2, s2, str1Length, str2Length) ==
  IF str2Length = 0 \/ b2[s2] = 0 THEN s1
  ELSE findfirst_strLoop(b1, s1, b2, s2, getchar(b2, s2, 0), str1Length,
                         IF str2Length = NoLimit THEN length(b2, s2)
                                                 ELSE str2Length)

\* ------------------------------------------------------------ findfirstof
\* The inner while loop of findfirstof: TRUE when ch is found in the set;
\* advance is temp - str, the width of the source code point.
RECURSIVE findfirstofSet(_, _, _, _, _)
findfirstofSet(b2, temp_set, ch, temp_length, advance) ==
  IF temp_length > 0 /\ nextchar(b2, temp_set).ch # 0
    THEN IF nextchar(b2, temp_set).ch = ch THEN TRUE
         ELSE findfirstofSet(b2, nextchar(b2, temp_set).next, ch,
                             SizeSub(temp_length, advance), advance)
    ELSE FALSE

\* Variant: the set is walked in the outer loop, the source in the inner one.
RECURSIVE findfirstof_setOrder(_, _, _, _, _, _)
findfirstof_setOrder(b, s, b2, charSet, strLength, setLength) ==
  IF setLength > 0 /\ nextchar(b2, charSet).ch # 0
    THEN LET p == findfirst_char(b, s, nextchar(b2, charSet).ch, strLength) IN
         IF p # NULL THEN p
         ELSE findfirstof_setOrder(b, s, b2, nextchar(b2, charSet).next,
                                   strLength, setLength)
    ELSE NULL

\* findfirstof(const T *str, const T *charSet, size_t strLength, size_t setLength)
RECURSIVE findfirstof(_, _, _, _, _, _)
findfirstof(b, s, b2, charSet, strLength, setLength) ==
  IF strLength > 0 /\ nextchar(b, s).ch # 0
    THEN LET temp == nextchar(b, s).next IN
         IF findfirstofSet(b2, charSet, nextchar(b, s).ch, setLength, temp - s)
           THEN s
           ELSE findfirstof(b, temp, b2, charSet,
                            SizeSub(strLength, temp - s), setLength)
    ELSE NULL

\* ------------------------------------------------------ optimized overloads
\* findfirst(const wchar_t *str, char32_t character): wcschr returns the
\* first unit equal to the character, the terminator being part of the string.
RECURSIVE findfirst_wcschr(_, _, _)
findfirst_wcschr(b, s, character) ==
  IF b[s] = character THEN s
  ELSE IF b[s] = 0 THEN NULL
  ELSE findfirst_wcschr(b, s + 1, character)

\* findfirst(const char *str, char32_t character): strchr compares with the
\* character converted to char.
findfirst_strchr(b, s, character) == findfirst_wcschr(b, s, character % 256)

\* findfirst(const char *str1, const char *str2): strstr returns the first
\* place where the units of str2 up to its terminator occur, str1 itself
\* for an empty str2.
RECURSIVE findfirst_strstr(_, _, _, _)
findfirst_strstr(b1, s1, b2, s2) ==
  IF compare(b1, s1, b2, s2, length(b2, s2)) = 0 THEN s1
  ELSE IF b1[s1] = 0 THEN NULL
  ELSE findfirst_strstr(b1, s1 + 1, b2, s2)

\* findfirstof(const char *str, const char *charSet): strpbrk returns the
\* first unit of str that is one of the units of charSet before its
\* terminator.
RECURSIVE findfirstof_strpbrk(_, _, _, _)
findfirstof_strpbrk(b, s, b2, charSet) ==
  IF b[s] = 0 THEN NULL
  ELSE IF \E q \in charSet..(charSet + length(b2, charSet) - 1) : b2[q] = b[s]
    THEN s
  ELSE findfirstof_strpbrk(b, s + 1, b2, charSet)

\* ----------------------------------------------------- the search callers
\* Target characters: the code points of the buffers and the terminator.
CharInputs == SearchChars \cup {0}

\* Lengths a caller passes: up to one more than the units of the buffer,
\* or the no-limit default.
Lengths(b) == 0..Len(b) \cup {NoLimit}

\* Buffers of fixed-width code units: one unit for every code point.
FixedWidth(b) == \A i \in 1..Len(b) : b[i] < 128

CallFindChar ==
  /\ res.op = "none"
  /\ \E character \in CharInputs, strLength \in Lengths(buf) :
       res' = [op |-> "findfirst_char", character |-> character,
               strLength |-> strLength,
               ret |-> findfirst_char(buf, str, character, strLength)]
  /\ UNCHANGED <<buf, str, line, ret, origin, lines, buf2>>

CallFindStr ==
  /\ res.op = "none"
  /\ \E str1Length \in Lengths(buf), str2Length \in Lengths(buf2) :
       res' = [op |-> "findfirst_str", str1Length |-> str1Length,
               str2Length |-> str2Length,
               ret |-> findfirst_str(buf, str, buf2, 1, str1Length, str2Length)]
  /\ UNCHANGED <<buf, str, line, ret, origin, lines, buf2>>

CallFindFirstOf ==
  /\ res.op = "none"
  /\ \E strLength \in Lengths(buf), setLength \in Lengths(buf2) :
       res' = [op |-> "findfirstof", strLength |-> strLength,
               setLength |-> setLength,
               ret |-> findfirstof(buf, str, buf2, 1, strLength, setLength)]
  /\ UNCHANGED <<buf, str, line, ret, origin, lines, buf2>>

CallFindCharFast ==
  /\ res.op = "none"
  /\ FixedWidth(buf)
  /\ \E character \in CharInputs, f \in {"findfirst_strchr", "findfirst_wcschr"} :
       res' = [op |-> f, character |-> character,
               ret |-> IF f = "findfirst_strchr"
                         THEN findfirst_strchr(buf, str, character)
                         ELSE findfirst_wcschr(buf, str, character)]
  /\ UNCHANGED <<buf, str, line, ret, origin, lines, buf2>>

CallFindStrFast ==
  /\ res.op = "none"
  /\ FixedWidth(buf) /\ FixedWidth(buf2)
  /\ res' = [op |-> "findfirst_strstr",
             ret |-> findfirst_strstr(buf, str, buf2, 1)]
  /\ UNCHANGED <<buf, str, line, ret, origin, lines, buf2>>

CallFindFirstOfFast ==
  /\ res.op = "none"
  /\ FixedWidth(buf) /\ FixedWidth(buf2)
  /\ res' = [op |-> "findfirstof_strpbrk",
             ret |-> findfirstof_strpbrk(buf, str, buf2, 1)]
  /\ UNCHANGED <<buf, str, line, ret, origin, lines, buf2>>

InitFind ==
  /\ buf \in Buffers(SearchChars, MaxStr)
  /\ buf2 \in Buffers(SearchChars, MaxSet)
  /\ origin \in Boundaries(buf)
  /\ str = origin
  /\ line = NoLine
  /\ ret = "none"
  /\ lines = <<>>
  /\ res = NoRes

NextFind ==
  \/ CallFindChar
  \/ CallFindStr
  \/ CallFindFirstOf
  \/ CallFindCharFast
  \/ CallFindStrFast
  \/ CallFindFirstOfFast

SpecFind == InitFind /\ [][NextFind]_vars

\* ------------------------------------------------------- nextline: claims
Units(b, from, to) == SubSeq(b, from, to - 1)

Delims == {<<10>>, <<13, 10>>}

RECURSIVE Rejoin(_, _)
Rejoin(b, ls) ==
  IF ls = <<>> THEN <<>>
  ELSE Units(b, Head(ls).start, Head(ls).end)
         \o Units(b, Head(ls).end, Head(ls).next)
         \o Rejoin(b, Tail(ls))

\* C1: calling nextline from the buffer's first unit until it returns false
\* tiles the buffer: the first line starts at the buffer start, every line
\* starts at the cursor of its call, what lies between a line's end and the
\* cursor after the call is one "\n" or "\r\n" (or nothing at the
\* terminator), the next line starts at that cursor, and the lines with
\* their delimiters re-inserted give back the buffer.
C1_Tiling ==
  origin = 1 =>
    /\ \A i \in 1..Len(lines) :
         /\ lines[i].start = lines[i].entry
         /\ lines[i].start <= lines[i].end
         /\ lines[i].end <= lines[i].next
         /\ \/ Units(buf, lines[i].end, lines[i].next) \in Delims
            \/ lines[i].end = lines[i].next /\ buf[lines[i].end] = 0
         /\ i = 1 => lines[i].start = 1
         /\ i > 1 => lines[i].start = lines[i - 1].next
    /\ ret = "false" => Rejoin(buf, lines) = Units(buf, 1, Len(buf))

C1_Witness ==
  /\ origin = 1
  /\ ret = "false"
  /\ Len(lines) = 3
  /\ Units(buf, lines[1].end, lines[1].next) = <<13, 10>>
  /\ Units(buf, lines[2].end, lines[2].next) = <<10>>
  /\ lines[3].end = lines[3].next
  /\ lines[3].start < lines[3].end

IsBreak(b, q) == b[q] = 0 \/ b[q] = 10 \/ (b[q] = 13 /\ b[q + 1] = 10)

FirstBreak(b, p) ==
  CHOOSE q \in p..Len(b) : IsBreak(b, q) /\ \A r \in p..(q - 1) : ~IsBreak(b, r)

AfterBreak(b, q) == IF b[q] = 0 THEN q ELSE IF b[q] = 10 THEN q + 1 ELSE q + 2

\* C2: from a cursor that is not on the terminator, the line ends at the
\* first '\n' or "\r\n" pair at or after the cursor (at the terminator if
\* there is none) and the cursor moves past exactly that delimiter; a '\r'
\* without a following '\n' stays inside the line, and the line holds no
\* delimiter.
C2_LineEnd ==
  \A i \in 1..Len(lines) :
    /\ lines[i].start = lines[i].entry
    /\ lines[i].end = FirstBreak(buf, lines[i].entry)
    /\ lines[i].next = AfterBreak(buf, lines[i].end)
    /\ \A q \in lines[i].start..(lines[i].end - 1) : buf[q] # 10

C2_Witness ==
  \E i \in 1..Len(lines) :
    /\ \E q \in lines[i].start..(lines[i].end - 1) : buf[q] = 13
    /\ Units(buf, lines[i].end, lines[i].next) = <<13, 10>>

C3_Advance ==
  /\ ret = "false" => buf[str] = 0
  /\ ret = "true" => Len(lines) > 0 /\ lines[Len(lines)].next = str
  /\ \A i \in 1..Len(lines) :
       /\ buf[lines[i].entry] # 0
       /\ lines[i].entry < lines[i].next
       /\ lines[i].next <= Len(buf)
       /\ lines[i].start <= lines[i].end
       /\ i > 1 => lines[i - 1].end <= lines[i].start

\* C3: nextline returns false exactly when the cursor on entry is on the
\* terminator; a call that returns true moves the cursor strictly forward
\* and not beyond the terminator, the lines do not overlap, and repeated
\* calls return false after finitely many calls.
C3_Exhausts == []C3_Advance /\ <>(ret = "false")

C3_Witness ==
  /\ ret = "false"
  /\ Len(lines) >= 2
  /\ origin > 1
  /\ lines[Len(lines)].end = lines[Len(lines)].next
  /\ lines[Len(lines)].start < lines[Len(lines)].end

\* --------------------------------------------------------- search: claims
Min(S) == CHOOSE x \in S : \A y \in S : x <= y

\* The pointers at or after s whose code point is ch.
Matches(b, s, ch) ==
  {p \in Boundaries(b) : p >= s /\ b[p] # 0 /\ nextchar(b, p).ch = ch}

FirstMatch(b, s, ch) ==
  IF Matches(b, s, ch) = {} THEN NULL ELSE Min(Matches(b, s, ch))

\* C4: with no bound, findfirst(str, character) returns the first code point
\* of str equal to a non-terminator character, NULL when there is none, and
\* leaves the caller's pointer where it was.
C4_FindChar ==
  (res.op = "findfirst_char" /\ res.strLength = NoLimit /\ res.character # 0) =>
    /\ res.ret = FirstMatch(buf, str, res.character)
    /\ str = origin

C4_Witness ==
  /\ res.op = "findfirst_char"
  /\ res.strLength = NoLimit
  /\ res.character = 97
  /\ str = 1
  /\ buf[1] >= 128
  /\ res.ret = 3
  /\ Cardinality(Matches(buf, str, 97)) = 2

\* C5: with a bound of B code units, findfirst(str, character, B) finds the
\* first matching code point exactly when that code point lies entirely
\* within the first B code units of str, and returns NULL otherwise.
C5_Bound ==
  (res.op = "findfirst_char" /\ res.strLength # NoLimit) =>
    LET m == FirstMatch(buf, str, res.character) IN
    res.ret = IF m # NULL /\ nextchar(buf, m).next - str <= res.strLength
                THEN m ELSE NULL

\* The unit positions at or after s where the first n units of b2 occur.
Occurrences(b, s, b2, n) ==
  {p \in s..Len(b) :
     p + n <= Len(b) /\ SubSeq(b, p, p + n - 1) = SubSeq(b2, 1, n)}

\* C6: with no bounds, findfirst(str1, str2) returns the smallest position
\* of str1 where str2 occurs as a contiguous substring, NULL when it occurs
\* nowhere, and str1 itself when the needle is empty (terminator first, or a
\* needle bound of zero).
C6_FindStr ==
  (res.op = "findfirst_str" /\ res.str1Length = NoLimit
     /\ res.str2Length \in {0, NoLimit}) =>
    LET occ == Occurrences(buf, str, buf2, Len(buf2) - 1) IN
    res.ret = IF res.str2Length = 0 \/ buf2[1] = 0 THEN str
              ELSE IF occ = {} THEN NULL
              ELSE Min(occ)

C6_Witness ==
  /\ res.op = "findfirst_str"
  /\ res.str1Length = NoLimit
  /\ res.str2Length = NoLimit
  /\ Len(buf2) > 2
  /\ res.ret # NULL
  /\ FirstMatch(buf, str, nextchar(buf2, 1).ch) < res.ret

\* C7: for a non-empty needle, findfirst(str1, str2, str1Length, str2Length)
\* never returns a position at or beyond offset str1Length of str1, and
\* returns NULL when the needle's leading code point does not occur within
\* the first str1Length units (the needle bound, when given, being at most
\* the needle's length).
C7_HaystackBound ==
  (res.op = "findfirst_str" /\ res.str1Length # NoLimit
     /\ res.str2Length \in 1..length(buf2, 1) \cup {NoLimit}
     /\ buf2[1] # 0) =>
    /\ res.ret # NULL => res.ret - str < res.str1Length
    /\ (\A p \in Matches(buf, str, nextchar(buf2, 1).ch) :
          p - str >= res.str1Length) => res.ret = NULL

\* The code points of the set held by b2.
SetMembers(b2) == {nextchar(b2, q).ch : q \in {r \in Boundaries(b2) : b2[r] # 0}}

\* The pointers at or after s whose code point is one of cs.
MatchesOf(b, s, cs) ==
  {p \in Boundaries(b) : p >= s /\ b[p] # 0 /\ nextchar(b, p).ch \in cs}

\* C8: with no bounds, findfirstof(str, charSet) returns the first code
\* point of str, in source order, that equals a code point of charSet, and
\* NULL when there is none (empty set and empty source included).
C8_FindFirstOf ==
  (res.op = "findfirstof" /\ res.strLength = NoLimit
     /\ res.setLength = NoLimit) =>
    LET m == MatchesOf(buf, str, SetMembers(buf2)) IN
    res.ret = IF m = {} THEN NULL ELSE Min(m)

C8_Witness ==
  /\ res.op = "findfirstof"
  /\ res.strLength = NoLimit
  /\ res.setLength = NoLimit
  /\ res.ret # NULL
  /\ res.ret > str
  /\ nextchar(buf, res.ret).ch # nextchar(buf2, 1).ch
  /\ FirstMatch(buf, str, nextchar(buf2, 1).ch) > res.ret

\* C9: every optimized overload returns what the generic function returns
\* on the same arguments with no bound.
C9_FastPaths ==
  /\ res.op \in {"findfirst_strchr", "findfirst_wcschr"} =>
       res.ret = findfirst_char(buf, str, res.character, NoLimit)
  /\ res.op = "findfirst_strstr" =>
       res.ret = findfirst_str(buf, str, buf2, 1, NoLimit, NoLimit)
  /\ res.op = "findfirstof_strpbrk" =>
       res.ret = findfirstof(buf, str, buf2, 1, NoLimit, NoLimit)

\* C10: with a set bound of setLength code units, findfirstof reports only
\* source code points that equal a set code point lying within the first
\* setLength units of charSet.
C10_SetBound ==
  (res.op = "findfirstof" /\ res.setLength # NoLimit /\ res.ret # NULL) =>
    \E q \in Boundaries(buf2) :
      /\ buf2[q] # 0
      /\ nextchar(buf2, q).next - 1 <= res.setLength
      /\ nextchar(buf2, q).ch = nextchar(buf, res.ret).ch

====
